---- MODULE Spec2Model ----
(***************************************************************************)
(* service-worker-precache-webpack-plugin: the manifest engine             *)
(* (lib/manifest.js, class ManifestServiceWorker) and the after-emit       *)
(* pipeline of the plugin (lib/plugin.js, class ServiceWorkerWebpackPlugin).*)
(*                                                                         *)
(* JavaScript strings are sequences of one-character strings, so that      *)
(* String.replace, String.split, RegExp.test and path.resolve are computed *)
(* character by character, as the runtime computes them.  Paths are POSIX  *)
(* paths (path.sep = "/").                                                 *)
(***************************************************************************)
EXTENDS Integers, Sequences, FiniteSets, TLC

VARIABLES
  options,  \* this.options of the plugin instance (DEFAULT_OPTIONS merged with the user's)
  fsFiles,  \* the manifest files that exist on disk: absolute path -> parsed content
  engine,   \* the ManifestServiceWorker instance of the build, or NoEngine
  call,     \* the last direct call of an engine method, with its result
  pc,       \* position of the after-emit handler
  workerOptionsList, \* result of createServiceWorkerOptions in the after-emit handler
  workers,  \* per worker: the state of its createServiceWorkerFile promise
  failures, \* the errors raised by the workers' pipelines, in the order they were raised
  promiseAll,            \* state of Promise.all(promises)
  serviceWorkerManifest, \* the aggregate manifest object of the after-emit handler
  manifestWrite,         \* position of writeServiceWorkerManifest's callbacks
  outputFiles,           \* files written through compiler.outputFileSystem, in order
  hook,                  \* state of applyPluginsAsync('service-worker-webpack-plugin-after-emit')
  callbacks,             \* the calls of the after-emit callback, in order
  thisConfig,    \* this.config of the plugin instance
  thisOverrides, \* this.overrides of the plugin instance
  thisWarnings,  \* this.warnings of the plugin instance
  webpack,       \* what the handler reads from and pushes to the compiler and its compilation
  builds         \* this.workerOptions of every after-emit run without a manifest, in order

vars == <<options, fsFiles, engine, call, pc, workerOptionsList, workers, failures,
          promiseAll, serviceWorkerManifest, manifestWrite, outputFiles, hook, callbacks,
          thisConfig, thisOverrides, thisWarnings, webpack, builds>>

pipelineVars == <<pc, workerOptionsList, workers, failures, promiseAll,
                  serviceWorkerManifest, manifestWrite, outputFiles, hook, callbacks>>

pluginVars == <<thisConfig, thisOverrides, thisWarnings, webpack, builds>>

-----------------------------------------------------------------------------
(* String literals.                                                        *)

DotJs == <<".", "j", "s">>
Dash == <<"-">>
Slash == <<"/">>
DotDot == <<".", ".">>
Dot == <<".">>
Empty == <<>>
Http == <<"h", "t", "t", "p", ":">>
Https == <<"h", "t", "t", "p", "s", ":">>
SlashSlash == <<"/", "/">>
JsChunk == <<"j", "s", "/", "c", "h", "u", "n", "k">>
CommonJs == <<"c", "o", "m", "m", "o", "n", ".", "j", "s">>
VendorJs == <<"v", "e", "n", "d", "o", "r", ".", "j", "s">>
ManifestJson == <<"m", "a", "n", "i", "f", "e", "s", "t", ".", "j", "s", "o", "n">>
XJs == <<"x", ".", "j", "s">>
Js == <<"j", "s">>

-----------------------------------------------------------------------------
(* JavaScript string primitives.                                           *)

StartsWith(s, p) == Len(p) <= Len(s) /\ SubSeq(s, 1, Len(p)) = p

EndsWith(s, p) == Len(p) <= Len(s) /\ SubSeq(s, Len(s) - Len(p) + 1, Len(s)) = p

\* String.prototype.indexOf, 1-based; 0 when pat does not occur.
IndexOf(s, pat) ==
  LET hits == {i \in 1..(Len(s) - Len(pat) + 1) : SubSeq(s, i, i + Len(pat) - 1) = pat}
  IN IF hits = {} THEN 0 ELSE CHOOSE i \in hits : \A j \in hits : i <= j

Includes(s, pat) == IndexOf(s, pat) # 0

\* s.replace(pat, rep) with a string pattern: the first occurrence only, wherever it is.
ReplaceFirst(s, pat, rep) ==
  LET i == IndexOf(s, pat)
  IN IF i = 0 THEN s
     ELSE SubSeq(s, 1, i - 1) \o rep \o SubSeq(s, i + Len(pat), Len(s))

\* s.replace(/c/g, rep) for a one-character pattern c.
ReplaceAllChar(s, c, rep) == [i \in 1..Len(s) |-> IF s[i] = c THEN rep ELSE s[i]]

\* s.split(sep) for a non-empty separator.
RECURSIVE Split(_, _)
Split(s, sep) ==
  LET i == IndexOf(s, sep)
  IN IF i = 0 THEN <<s>>
     ELSE <<SubSeq(s, 1, i - 1)>> \o Split(SubSeq(s, i + Len(sep), Len(s)), sep)

\* parts.join(sep)
RECURSIVE Join(_, _)
Join(parts, sep) ==
  IF parts = <<>> THEN <<>>
  ELSE IF Len(parts) = 1 THEN parts[1]
  ELSE parts[1] \o sep \o Join(Tail(parts), sep)

\* s.slice(0, n)
Slice0(s, n) == SubSeq(s, 1, IF n < Len(s) THEN n ELSE Len(s))

\* Array.from(new Set(list)): the first occurrence of every element, in order.
RECURSIVE ArrayFromSet(_)
ArrayFromSet(list) ==
  IF list = <<>> THEN <<>>
  ELSE LET front == ArrayFromSet(SubSeq(list, 1, Len(list) - 1))
           last == list[Len(list)]
       IN IF \E i \in DOMAIN front : front[i] = last THEN front ELSE Append(front, last)

MapSeq(list, F(_)) == [i \in DOMAIN list |-> F(list[i])]

RECURSIVE Flatten(_)
Flatten(lists) == IF lists = <<>> THEN <<>> ELSE Head(lists) \o Flatten(Tail(lists))

-----------------------------------------------------------------------------
(* Node's path module, POSIX flavour.                                      *)

RECURSIVE NormalizeSegments(_, _)
NormalizeSegments(segs, acc) ==
  IF segs = <<>> THEN acc
  ELSE LET h == Head(segs)
       IN IF h = Empty \/ h = Dot THEN NormalizeSegments(Tail(segs), acc)
          ELSE IF h = DotDot
            THEN NormalizeSegments(Tail(segs),
                   IF acc = <<>> THEN acc ELSE SubSeq(acc, 1, Len(acc) - 1))
          ELSE NormalizeSegments(Tail(segs), Append(acc, h))

\* path.resolve(from, to) for an absolute `from`: an absolute `to` replaces
\* `from`, and the result is normalised ('.', '..', empty segments, no trailing '/').
PathResolve(from, to) ==
  LET segs == IF StartsWith(to, Slash) THEN Split(to, Slash)
              ELSE Split(from, Slash) \o Split(to, Slash)
  IN Slash \o Join(NormalizeSegments(segs, <<>>), Slash)

PathIsAbsolute(p) == StartsWith(p, Slash)

\* path.dirname / path.basename of a normalised absolute path
LastSlash(p) == CHOOSE i \in 1..Len(p) : p[i] = "/" /\ \A j \in (i + 1)..Len(p) : p[j] # "/"

PathDirname(p) == IF LastSlash(p) = 1 THEN Slash ELSE SubSeq(p, 1, LastSlash(p) - 1)

PathBasename(p, ext) ==
  LET base == SubSeq(p, LastSlash(p) + 1, Len(p))
  IN IF EndsWith(base, ext) /\ base # ext THEN SubSeq(base, 1, Len(base) - Len(ext)) ELSE base

-----------------------------------------------------------------------------
(* Values.                                                                 *)

\* A JavaScript value whose type the code tests (typeof, Array.isArray).
StrVal(s) == [t |-> "string", s |-> s]
ArrVal(a) == [t |-> "array", a |-> a]
ObjVal(v) == [t |-> "object", v |-> v]
Undefined == [t |-> "undefined"]
Null == [t |-> "null"]

\* compiler.outputPath and compiler.options.context
outputPath == <<"/", "o", "u", "t">>
baseDir == <<"/", "p", "r", "j">>

NoEngine == [t |-> "none"]
NoCall == [fn |-> "none"]
NoWebpack == [t |-> "none"]

\* new RegExp(source)
RegExpOf(source) == [regexp |-> source]

\* regex.test(text) for the patterns of staticFileGlobsIgnorePatterns, each a
\* literal anchored at the end: /<literal>$/
RegexTest(regex, text) == EndsWith(text, regex.literalAtEnd)

-----------------------------------------------------------------------------
(* lib/manifest.js                                                         *)

\* A classifier that knows the http: and https: schemes but not protocol-relative URLs.
isHttpOrHttps_SchemeOnly(url) == StartsWith(url, Http) \/ StartsWith(url, Https)

isHttpOrHttps(url) ==
  StartsWith(url, Http) \/ StartsWith(url, Https) \/ StartsWith(url, SlashSlash)

isCacheStaticFile(e, url) ==
  ~ \E i \in DOMAIN e.options.staticFileGlobsIgnorePatterns :
      RegexTest(e.options.staticFileGlobsIgnorePatterns[i], url)

\* file.replace(this.publicPath, '')
StripPublicPath(e, file) == ReplaceFirst(file, e.publicPath, Empty)

\* normalizePath(files): files is a string or an array of strings
normalizePath(e, files) ==
  LET list == IF files.t = "array" THEN files.a ELSE <<files.s>>
  IN MapSeq(list, LAMBDA file : PathResolve(e.outputPath, StripPublicPath(e, file)))

\* normalizePublicPath(publicPath); a scheme without '//' leaves split('//')[1]
\* undefined, which no public path of this model has.
normalizePublicPath(e, publicPath) ==
  IF isHttpOrHttps(publicPath)
    THEN LET temp == Split(Split(publicPath, SlashSlash)[2], Slash)
         IN Slash \o Join(Tail(temp), Slash)
    ELSE publicPath

normalizeServiceWorkerFileOption(e, res) ==
  LET urls == res.css \o res.js
      static == SelectSeq(urls, LAMBDA url : ~isHttpOrHttps(url) /\ isCacheStaticFile(e, url))
  IN [staticFileGlobs |->
        MapSeq(static, LAMBDA url : PathResolve(e.outputPath, StripPublicPath(e, url))),
      runtimeCaching |-> SelectSeq(urls, isHttpOrHttps)]


\* The exclusion pattern without its ^ anchor.
IsSharedChunkName_Unanchored(entryName) ==
  Includes(entryName, JsChunk) \/ Includes(entryName, CommonJs) \/ Includes(entryName, VendorJs)

\* /^(js\/chunk|common\.js|vendor\.js)/.test(entryName)
IsSharedChunkName(entryName) ==
  StartsWith(entryName, JsChunk) \/ StartsWith(entryName, CommonJs)
    \/ StartsWith(entryName, VendorJs)

\* webpack-merge of option objects: a later object's keys override an earlier
\* object's.  (Array values under one key would be joined; no key of the
\* model's plugin options holds an array that the derived options also set.)
Merge(a, b) == b @@ a

\* Object.keys(this.manifest), with each key's value: the URL entries, then the
\* 'deps' and 'info' objects.
ManifestKeys(m) ==
  m.entries \o <<[name |-> "deps", value |-> ObjVal("deps")],
                 [name |-> "info", value |-> ObjVal("info")]>>

\* this.manifest.deps[entryName]
DepsLookup(m, entryName) ==
  IF \E i \in DOMAIN m.deps : m.deps[i].name = entryName
    THEN ObjVal(m.deps[CHOOSE i \in DOMAIN m.deps : m.deps[i].name = entryName])
    ELSE Undefined

UrlPattern(url) == [urlPattern |-> RegExpOf(url), handler |-> "fastest"]

createSingleServiceWorker(e) ==
  LET strings == SelectSeq(ManifestKeys(e.manifest), LAMBDA k : k.value.t = "string")
      remote == SelectSeq(strings, LAMBDA k : isHttpOrHttps(k.value.s))
      static == SelectSeq(strings, LAMBDA k : ~isHttpOrHttps(k.value.s)
                                                /\ isCacheStaticFile(e, k.value.s))
      option == [stripPrefixMulti |-> e.stripPrefixMulti,
                 staticFileGlobs |-> Flatten(MapSeq(static, LAMBDA k : normalizePath(e, k.value))),
                 runtimeCaching |-> MapSeq(remote, LAMBDA k : UrlPattern(k.value.s))]
      withPath == IF e.options.filepath.t = "undefined"
                    THEN option @@ [filepath |->
                                      StrVal(PathResolve(e.outputPath, e.options.filename))]
                    ELSE option
  IN Merge(e.options, withPath)

MultipleFilename(e, entryName) == e.prefix \o Dash \o ReplaceAllChar(entryName, "/", "-")

createMultipleServiceWorker(e) ==
  LET kept == SelectSeq(e.manifest.deps, LAMBDA d : ~IsSharedChunkName(d.name))
      Option(d) ==
        LET filepath == PathResolve(e.outputPath, MultipleFilename(e, d.name))
            fileOption == normalizeServiceWorkerFileOption(e, d)
        IN Merge(Merge(e.options, [filepath |-> StrVal(filepath)]),
                 [staticFileGlobs |-> ArrayFromSet(fileOption.staticFileGlobs),
                  runtimeCaching |-> MapSeq(ArrayFromSet(fileOption.runtimeCaching), UrlPattern),
                  stripPrefixMulti |-> e.stripPrefixMulti])
  IN ArrVal(MapSeq(kept, Option))

ConfigFilename(e, config) ==
  e.prefix \o Dash \o (IF EndsWith(config.name, DotJs) THEN config.name
                                                        ELSE config.name \o DotJs)

\* /\.js/.test(item) ? item : `${item}.js`
ConfigEntryName(item) == IF Includes(item, DotJs) THEN item ELSE item \o DotJs

\* A descriptor entry that names no record of manifest.deps makes
\* normalizeServiceWorkerFileOption read res.css of undefined: a TypeError.
createConfigServiceWorker(e) ==
  IF e.strategy.t # "array" THEN ArrVal(<<>>)
  ELSE LET Entry(config) == IF config.entry.t = "array" THEN config.entry.a
                                                        ELSE <<config.entry.s>>
           Missing(config) == \E i \in DOMAIN Entry(config) :
                                DepsLookup(e.manifest, ConfigEntryName(Entry(config)[i])).t
                                  = "undefined"
           Option(config) ==
             LET filepath == PathResolve(e.outputPath, ConfigFilename(e, config))
                 fileOptions == MapSeq(Entry(config), LAMBDA item :
                                  normalizeServiceWorkerFileOption(e,
                                    DepsLookup(e.manifest, ConfigEntryName(item)).v))
                 staticFileGlobsList == Flatten(MapSeq(fileOptions, LAMBDA o : o.staticFileGlobs))
                 runtimeCachingList == Flatten(MapSeq(fileOptions, LAMBDA o : o.runtimeCaching))
                 own == IF config.options.t = "undefined" THEN e.options
                        ELSE Merge(e.options, config.options.v)
             IN Merge(own,
                      [filepath |-> StrVal(filepath),
                       staticFileGlobs |-> ArrayFromSet(staticFileGlobsList),
                       runtimeCaching |-> MapSeq(ArrayFromSet(runtimeCachingList), UrlPattern),
                       stripPrefixMulti |-> e.stripPrefixMulti])
       IN IF \E i \in DOMAIN e.strategy.a : Missing(e.strategy.a[i])
            THEN [t |-> "TypeError"]
            ELSE ArrVal(MapSeq(e.strategy.a, Option))

\* The switch on this.strategy, and the wrapping of a single result in an array.
createServiceWorkerOptions(e) ==
  IF e.strategy.t = "string" /\ e.strategy.s = "single"
    THEN ArrVal(<<createSingleServiceWorker(e)>>)
  ELSE IF e.strategy.t = "string" /\ e.strategy.s = "multiple"
    THEN createMultipleServiceWorker(e)
  ELSE createConfigServiceWorker(e)

\* normalizeManifest(manifest, baseDir): a path string is resolved and loaded
\* when the file exists, and is null when it does not.
normalizeManifest(manifest, dir) ==
  IF manifest.t = "string"
    THEN LET filepath == IF PathIsAbsolute(manifest.s) THEN manifest.s
                         ELSE PathResolve(dir, manifest.s)
         IN IF filepath \in DOMAIN fsFiles THEN ObjVal(fsFiles[filepath]) ELSE Null
    ELSE manifest

\* new ManifestServiceWorker(compiler, options); reading .info of a null
\* manifest throws a TypeError out of the constructor.
NewManifestServiceWorker(opts) ==
  LET manifest == normalizeManifest(opts.manifest, baseDir)
  IN IF manifest.t # "object" THEN [t |-> "TypeError"]
     ELSE [t |-> "engine",
           options |-> opts,
           baseDir |-> baseDir,
           outputPath |-> outputPath,
           strategy |-> IF opts.strategy.t = "undefined" THEN StrVal("single")
                        ELSE opts.strategy,
           prefix |-> opts.prefix,
           manifest |-> manifest.v,
           publicPath |-> manifest.v.info.publicPath,
           stripPrefixMulti |-> [dir |-> outputPath \o Slash,
                                 publicPath |-> manifest.v.info.publicPath]]


-----------------------------------------------------------------------------
(* lib/plugin.js: the options of the plugin instance.                      *)

Sw == <<"s", "w">>
ServiceWorkerJs == <<"s", "e", "r", "v", "i", "c", "e", "-", "w", "o", "r", "k", "e", "r",
                     ".", "j", "s">>
DefaultCacheId == <<"s", "e", "r", "v", "i", "c", "e", "-", "w", "o", "r", "k", "e", "r", "-",
                    "w", "e", "b", "p", "a", "c", "k", "-", "p", "l", "u", "g", "i", "n">>

DEFAULT_OPTIONS ==
  [prefix |-> Sw,
   cacheId |-> DefaultCacheId,
   filename |-> ServiceWorkerJs,
   importScripts |-> <<>>,
   staticFileGlobsIgnorePatterns |-> <<>>,
   mergeStaticsConfig |-> FALSE,
   minify |-> FALSE,
   hash |-> FALSE,
   hashLength |-> 8,
   \* keys the defaults do not set
   filepath |-> Undefined,
   manifest |-> Undefined,
   strategy |-> Undefined]

\* constructor(options): this.options = {...DEFAULT_OPTIONS, ...options}
PluginOptions(user) == user @@ DEFAULT_OPTIONS

-----------------------------------------------------------------------------
(* Inputs.                                                                 *)

MaxTop == 2    \* URL entries at the top level of a manifest
MaxDeps == 2   \* records of manifest.deps
MaxFiles == 2  \* length of an array handed to normalizePath

SeqsUpTo(S, n) == UNION {[1..k -> S] : k \in 0..n}

UrlFoo == <<"/", "f", "o", "o", ".", "a", "b", "c", "1", "2", "3", ".", "j", "s">>
UrlCdnA == <<"h", "t", "t", "p", ":", "/", "/", "c", "d", "n", "/", "a", ".", "j", "s">>
UrlCdnB == <<"/", "/", "c", "d", "n", "/", "b", ".", "j", "s">>
UrlHttpsC == <<"h", "t", "t", "p", "s", ":", "/", "/", "c", "d", "n", "/", "c", ".", "j", "s">>
UrlJsA == <<"j", "s", "/", "a", ".", "j", "s">>
UrlPubJsA == <<"/", "p", "u", "b", "l", "i", "c", "/", "j", "s", "/", "a", ".", "j", "s">>
UrlMap == <<"/", "a", ".", "j", "s", ".", "m", "a", "p">>

UrlPool == {UrlFoo, UrlCdnA, UrlCdnB, UrlHttpsC, UrlJsA, UrlPubJsA, UrlMap}

PPRoot == <<"/">>
PPPublic == <<"/", "p", "u", "b", "l", "i", "c", "/">>
PPNoSlash == <<"/", "p", "u", "b", "l", "i", "c">>
PPJs == <<"j", "s", "/">>
PPCdn == <<"h", "t", "t", "p", ":", "/", "/", "c", "d", "n", "/", "s", "t", "a", "t", "i", "c", "/">>
PPProto == <<"/", "/", "c", "d", "n", "/", "s", "t", "a", "t", "i", "c", "/">>
PPHttps == <<"h", "t", "t", "p", "s", ":", "/", "/", "c", "d", "n", "/">>

\* manifest.info.publicPath: path-only prefixes and absolute URLs
PathOnlyPublicPaths == {Empty, PPRoot, PPPublic, PPNoSlash, PPJs}
PublicPaths == PathOnlyPublicPaths \cup {PPCdn, PPProto, PPHttps}

MapRegex == [literalAtEnd |-> <<".", "m", "a", "p">>]
IgnoreLists == {<<>>, <<MapRegex>>}

FooJs == <<"f", "o", "o", ".", "j", "s">>
Foo == <<"f", "o", "o">>
NChunk0 == <<"j", "s", "/", "c", "h", "u", "n", "k", "/", "0", ".", "j", "s">>
NPVendor == <<"p", "/", "v", "e", "n", "d", "o", "r", ".", "j", "s">>
App == <<"a", "p", "p">>
AppJs == <<"a", "p", "p", ".", "j", "s">>
All == <<"a", "l", "l">>

EntryNames == {FooJs, NChunk0, CommonJs, VendorJs, NPVendor}

\* Dependency records: the css and js URL lists of one entry.
RecFoo == [css |-> <<>>, js |-> <<UrlFoo>>]
RecMixed == [css |-> <<UrlPubJsA, UrlCdnA>>, js |-> <<UrlJsA, UrlCdnA>>]
RecRemote == [css |-> <<UrlCdnB>>, js |-> <<UrlMap, UrlCdnA, UrlFoo>>]

DepRecords == {RecFoo, RecMixed, RecRemote}

DepEntries == {[name |-> n, css |-> r.css, js |-> r.js] : n \in EntryNames, r \in DepRecords}

\* manifest.deps: an object, so its keys are distinct
DepsLists ==
  {d \in SeqsUpTo(DepEntries, MaxDeps) :
     \A i, j \in DOMAIN d : d[i].name = d[j].name => i = j}

KeyA == <<"a", ".", "j", "s">>
KeyB == <<"b", ".", "j", "s">>
KeyC == <<"c", ".", "j", "s">>
TopKeys == <<KeyA, KeyB, KeyC>>

\* The URL entries at the top level of a manifest, keyed a.js, b.js, ...
TopLists ==
  {[i \in DOMAIN u |-> [name |-> TopKeys[i], value |-> StrVal(u[i])]] :
     u \in SeqsUpTo(UrlPool, MaxTop)}

ManifestOf(top, deps, publicPath) ==
  [entries |-> top, deps |-> deps, info |-> [publicPath |-> publicPath]]

\* Group descriptors of the config-driven strategy
GroupApp == [name |-> App, entry |-> StrVal(Foo), options |-> Undefined]
GroupAppJs == [name |-> AppJs, entry |-> ArrVal(<<FooJs, NPVendor>>),
               options |-> ObjVal([minify |-> TRUE])]
GroupAll == [name |-> All, entry |-> ArrVal(<<Foo, FooJs>>), options |-> Undefined]

ConfigStrategies == {ArrVal(<<GroupApp>>), ArrVal(<<GroupAppJs>>), ArrVal(<<GroupAll, GroupApp>>)}

CustomFilepath == <<"/", "s", "r", "v", "/", "s", "w", ".", "j", "s">>

\* The option sets of the three strategy families.
SingleInputs ==
  {PluginOptions([manifest |-> ObjVal(ManifestOf(top, <<>>, pp)), strategy |-> st,
                  staticFileGlobsIgnorePatterns |-> ig, filepath |-> fp]) :
     top \in TopLists, pp \in {PPRoot, PPPublic}, st \in {Undefined, StrVal("single")},
     ig \in IgnoreLists, fp \in {Undefined, StrVal(CustomFilepath)}}

MultipleInputs ==
  {PluginOptions([manifest |-> ObjVal(ManifestOf(<<>>, deps, pp)),
                  strategy |-> StrVal("multiple"), staticFileGlobsIgnorePatterns |-> ig]) :
     deps \in DepsLists, pp \in {PPRoot, PPPublic}, ig \in IgnoreLists}

ConfigInputs ==
  {PluginOptions([manifest |-> ObjVal(ManifestOf(<<>>, deps, pp)), strategy |-> st]) :
     deps \in DepsLists, pp \in {PPRoot, PPPublic},
     st \in ConfigStrategies \cup {StrVal("other")}}

EngineInputs == SingleInputs \cup MultipleInputs \cup ConfigInputs

PathInputs ==
  {PluginOptions([manifest |-> ObjVal(ManifestOf(<<>>, <<>>, pp)),
                  staticFileGlobsIgnorePatterns |-> ig]) :
     pp \in PublicPaths, ig \in IgnoreLists}

-----------------------------------------------------------------------------
(* Direct calls of the engine's methods.                                   *)

NoPromise == [state |-> "none"]
NoManifestWrite == [calls |-> 0, state |-> "none"]

IdlePipeline ==
  /\ pc = "idle"
  /\ workerOptionsList = <<>>
  /\ workers = <<>>
  /\ failures = <<>>
  /\ promiseAll = NoPromise
  /\ serviceWorkerManifest = Null
  /\ manifestWrite = NoManifestWrite
  /\ outputFiles = <<>>
  /\ hook = "none"
  /\ callbacks = <<>>

\* The plugin instance after its constructor, before any after-emit run.
IdlePlugin ==
  /\ thisConfig = <<>>
  /\ thisOverrides = <<>>
  /\ thisWarnings = <<>>
  /\ builds = <<>>

InitEngine ==
  /\ options \in EngineInputs
  /\ fsFiles = <<>>
  /\ engine = NewManifestServiceWorker(options)
  /\ call = NoCall
  /\ IdlePipeline
  /\ IdlePlugin
  /\ webpack = NoWebpack

InitPath ==
  /\ options \in PathInputs
  /\ fsFiles = <<>>
  /\ engine = NewManifestServiceWorker(options)
  /\ call = NoCall
  /\ IdlePipeline
  /\ IdlePlugin
  /\ webpack = NoWebpack

CallCreateServiceWorkerOptions ==
  /\ call' = [fn |-> "createServiceWorkerOptions", result |-> createServiceWorkerOptions(engine)]
  /\ UNCHANGED <<pluginVars, options, fsFiles, engine, pipelineVars>>

CallNormalizePath ==
  /\ \E files \in {StrVal(u) : u \in UrlPool}
                    \cup {ArrVal(a) : a \in SeqsUpTo({UrlFoo, UrlJsA, UrlPubJsA}, MaxFiles)} :
       call' = [fn |-> "normalizePath", arg |-> files, result |-> normalizePath(engine, files)]
  /\ UNCHANGED <<pluginVars, options, fsFiles, engine, pipelineVars>>

\* normalizePath(normalizePublicPath(publicPath) + 'x.js') for the manifest's public path
CallRoundTrip ==
  /\ call' = [fn |-> "roundTrip", arg |-> engine.publicPath,
              result |-> normalizePath(engine,
                           StrVal(normalizePublicPath(engine, engine.publicPath) \o XJs))]
  /\ UNCHANGED <<pluginVars, options, fsFiles, engine, pipelineVars>>

CallNormalizeServiceWorkerFileOption ==
  /\ \E res \in DepRecords :
       call' = [fn |-> "normalizeServiceWorkerFileOption", arg |-> res,
                result |-> normalizeServiceWorkerFileOption(engine, res)]
  /\ UNCHANGED <<pluginVars, options, fsFiles, engine, pipelineVars>>

NextEngine == CallCreateServiceWorkerOptions

SpecEngine == InitEngine /\ [][NextEngine]_vars

NextPath ==
  \/ CallNormalizePath
  \/ CallRoundTrip
  \/ CallNormalizeServiceWorkerFileOption

SpecPath == InitPath /\ [][NextPath]_vars


-----------------------------------------------------------------------------
(* lib/plugin.js: the after-emit handler in manifest mode.                 *)

\* md5(filename + serviceWorker): hexadecimal digests, longer than hashLength
Digests == {<<"9", "f", "8", "6", "d", "0", "8", "1", "8", "8">>,
            <<"0", "c", "c", "1", "7", "5", "b", "9", "c", "0">>}

\* swPrecache.generate(workerOptions), then UglifyJS.minify when options.minify:
\* the script text is a function of the worker options.
GeneratedScript(opts, workerOptions) ==
  [cacheId |-> workerOptions.cacheId,
   precache |-> workerOptions.staticFileGlobs,
   runtime |-> IF "runtimeCaching" \in DOMAIN workerOptions
                 THEN workerOptions.runtimeCaching ELSE <<>>,
   importScripts |-> workerOptions.importScripts,
   minified |-> opts.minify]

\* writeServiceWorker: the names computed between mkdirp and writeFile
WriteNames(opts, workerOptions, digest) ==
  LET filepath == workerOptions.filepath.s
      dirname == PathDirname(filepath)
      filename == PathBasename(filepath, DotJs)
      hash == IF opts.hash THEN Slice0(digest, opts.hashLength) ELSE Empty
      sourceFilename == Join(<<filename, Js>>, Dot)
      targetFilename == IF hash # Empty THEN Join(<<filename, hash, Js>>, Dot)
                        ELSE sourceFilename
  IN [source |-> sourceFilename,
      target |-> targetFilename,
      targetFilepath |-> Join(<<dirname, targetFilename>>, Slash)]

\* serviceWorkerManifest[item.source] = manifestServiceWorker.publicPath + item.target
ManifestEntryUrl_TargetOnly(e, item) == item.target

ManifestEntryUrl(e, item) == e.publicPath \o item.target

\* result.forEach(item => serviceWorkerManifest[item.source] = ...)
RECURSIVE AssignEntries(_, _, _)
AssignEntries(e, files, result) ==
  IF result = <<>> THEN files
  ELSE AssignEntries(e, (Head(result).source :> ManifestEntryUrl(e, Head(result))) @@ files,
                     Tail(result))

ManifestFilepath(opts) == PathResolve(outputPath, Join(<<opts.prefix, ManifestJson>>, Dash))

\* A combinator that is fulfilled by the first fulfilled promise.
PromiseAllResolveOnAny(current, ws) ==
  IF current.state # "pending" THEN current
  ELSE IF \E i \in DOMAIN ws : ws[i].state = "rejected"
    THEN [state |-> "rejected",
          reason |-> ws[CHOOSE i \in DOMAIN ws : ws[i].state = "rejected"].error]
  ELSE IF ws = <<>> \/ \E i \in DOMAIN ws : ws[i].state = "resolved"
    THEN [state |-> "resolved"]
  ELSE current

\* A combinator whose reason is replaced by every later rejection.
PromiseAllLastRejection(current, ws) ==
  LET rejected == {i \in DOMAIN ws : ws[i].state = "rejected"}
  IN IF current.state = "resolved" \/ current.state = "none" THEN current
     ELSE IF rejected # {}
       THEN [state |-> "rejected",
             reason |-> ws[CHOOSE i \in rejected : \A j \in rejected : j <= i].error]
     ELSE IF \A i \in DOMAIN ws : ws[i].state = "resolved"
       THEN [state |-> "resolved"]
     ELSE current

\* Promise.all(promises) after a change of the workers' promises: rejected with
\* the reason of the first promise to reject, fulfilled once all are fulfilled.
PromiseAll(current, ws) ==
  IF current.state # "pending" THEN current
  ELSE IF \E i \in DOMAIN ws : ws[i].state = "rejected"
    THEN [state |-> "rejected",
          reason |-> ws[CHOOSE i \in DOMAIN ws : ws[i].state = "rejected"].error]
  ELSE IF \A i \in DOMAIN ws : ws[i].state = "resolved"
    THEN [state |-> "resolved"]
  ELSE current

ErrorOf(step, w) == [step |-> step, worker |-> w]

\* compiler.plugin('after-emit', ...) with this.options.manifest set: the engine
\* is constructed, the worker options are derived and one
\* createServiceWorkerFile promise per worker is started.  An exception of
\* the constructor or of the strategy leaves the handler before any promise
\* exists and before the callback is stored anywhere.
AfterEmit ==
  /\ pc = "idle"
  /\ options.manifest.t # "undefined"
  /\ LET e == NewManifestServiceWorker(options)
         list == IF e.t = "engine" THEN createServiceWorkerOptions(e) ELSE e
     IN IF e.t # "engine" \/ list.t # "array"
          THEN /\ pc' = "threw"
               /\ engine' = e
               /\ UNCHANGED <<workerOptionsList, workers, promiseAll, serviceWorkerManifest>>
          ELSE /\ pc' = "waiting"
               /\ engine' = e
               /\ workerOptionsList' = list.a
               /\ workers' = [i \in DOMAIN list.a |->
                                [state |-> "generate", steps |-> <<"generate">>]]
               /\ promiseAll' = PromiseAll([state |-> "pending"], workers')
               /\ serviceWorkerManifest' =
                    [config |-> [prefix |-> options.prefix, publicPath |-> e.publicPath],
                     files |-> <<>>]
  /\ UNCHANGED <<pluginVars, options, fsFiles, call, failures, manifestWrite, outputFiles, hook, callbacks>>

\* A worker's promise rejects: no later step of its chain runs.
Reject(w, step) ==
  /\ workers' = [workers EXCEPT ![w] = [state |-> "rejected", steps |-> workers[w].steps,
                                        error |-> ErrorOf(step, w)]]
  /\ failures' = Append(failures, ErrorOf(step, w))
  /\ promiseAll' = PromiseAll(promiseAll, workers')

\* swPrecache.generate settles; on success writeServiceWorker issues mkdirp.
GenerateDone(w) ==
  /\ w \in DOMAIN workers
  /\ workers[w].state = "generate"
  /\ \/ /\ workers' = [workers EXCEPT ![w] =
                         [state |-> "mkdirp",
                          steps |-> Append(workers[w].steps, "mkdirp"),
                          serviceWorker |-> GeneratedScript(options, workerOptionsList[w])]]
        /\ UNCHANGED <<failures, promiseAll>>
     \/ Reject(w, "generate")
  /\ UNCHANGED <<pluginVars, options, fsFiles, engine, call, pc, workerOptionsList,
                 serviceWorkerManifest, manifestWrite, outputFiles, hook, callbacks>>

\* The mkdirp callback of writeServiceWorker: reject, or compute the names and
\* issue writeFile.
MkdirpDone(w) ==
  /\ w \in DOMAIN workers
  /\ workers[w].state = "mkdirp"
  /\ \/ /\ \E digest \in Digests :
             workers' = [workers EXCEPT ![w] =
                           [state |-> "writeFile",
                            steps |-> Append(workers[w].steps, "writeFile"),
                            serviceWorker |-> workers[w].serviceWorker,
                            names |-> WriteNames(options, workerOptionsList[w], digest)]]
        /\ UNCHANGED <<failures, promiseAll>>
     \/ Reject(w, "mkdirp")
  /\ UNCHANGED <<pluginVars, options, fsFiles, engine, call, pc, workerOptionsList,
                 serviceWorkerManifest, manifestWrite, outputFiles, hook, callbacks>>

\* The writeFile callback of writeServiceWorker.
WriteFileDone(w) ==
  /\ w \in DOMAIN workers
  /\ workers[w].state = "writeFile"
  /\ \/ /\ workers' = [workers EXCEPT ![w] =
                         [state |-> "resolved",
                          steps |-> workers[w].steps,
                          result |-> [source |-> workers[w].names.source,
                                      target |-> workers[w].names.target,
                                      content |-> workers[w].serviceWorker]]]
        /\ outputFiles' = (workers[w].names.targetFilepath :> workers[w].serviceWorker)
                            @@ outputFiles
        /\ promiseAll' = PromiseAll(promiseAll, workers')
        /\ UNCHANGED failures
     \/ /\ Reject(w, "writeFile")
        /\ UNCHANGED outputFiles
  /\ UNCHANGED <<pluginVars, options, fsFiles, engine, call, pc, workerOptionsList,
                 serviceWorkerManifest, manifestWrite, hook, callbacks>>

\* Promise.all(promises).then(result => ...): the entries are added, the
\* manifest write is started (mkdirp issued) and the after-emit hook is applied
\* with the build's callback.
ThenAll ==
  /\ pc = "waiting"
  /\ promiseAll.state = "resolved"
  /\ LET result == [i \in DOMAIN workers |-> workers[i].result]
     IN serviceWorkerManifest' =
          [serviceWorkerManifest EXCEPT
             !.files = AssignEntries(engine, serviceWorkerManifest.files, result)]
  /\ manifestWrite' = [calls |-> manifestWrite.calls + 1, state |-> "mkdirp"]
  /\ hook' = "running"
  /\ pc' = "then"
  /\ UNCHANGED <<pluginVars, options, fsFiles, engine, call, workerOptionsList, workers, failures,
                 promiseAll, outputFiles, callbacks>>

\* .catch(err => callback(err))
CatchAll ==
  /\ pc = "waiting"
  /\ promiseAll.state = "rejected"
  /\ callbacks' = Append(callbacks, [err |-> promiseAll.reason])
  /\ pc' = "caught"
  /\ UNCHANGED <<pluginVars, options, fsFiles, engine, call, workerOptionsList, workers, failures,
                 promiseAll, serviceWorkerManifest, manifestWrite, outputFiles, hook>>

\* The mkdirp callback of writeServiceWorkerManifest: an error is logged and
\* dropped; otherwise writeFile is issued with JSON.stringify(manifest).
ManifestMkdirpDone ==
  /\ manifestWrite.state = "mkdirp"
  /\ \/ manifestWrite' = [manifestWrite EXCEPT !.state = "writeFile"]
     \/ manifestWrite' = [manifestWrite EXCEPT !.state = "mkdirp-error"]
  /\ UNCHANGED <<pluginVars, options, fsFiles, engine, call, pc, workerOptionsList, workers, failures,
                 promiseAll, serviceWorkerManifest, outputFiles, hook, callbacks>>

\* The writeFile callback of writeServiceWorkerManifest: an error is logged and dropped.
ManifestWriteFileDone ==
  /\ manifestWrite.state = "writeFile"
  /\ \/ /\ manifestWrite' = [manifestWrite EXCEPT !.state = "written"]
        /\ outputFiles' = (ManifestFilepath(options) :> [json |-> serviceWorkerManifest])
                            @@ outputFiles
     \/ /\ manifestWrite' = [manifestWrite EXCEPT !.state = "writeFile-error"]
        /\ UNCHANGED outputFiles
  /\ UNCHANGED <<pluginVars, options, fsFiles, engine, call, pc, workerOptionsList, workers, failures,
                 promiseAll, serviceWorkerManifest, hook, callbacks>>

\* compilation.applyPluginsAsync('service-worker-webpack-plugin-after-emit',
\* result, callback) completes: the callback is called without an error, or
\* with the error of a plugin tapped on the hook.
HookDone ==
  /\ hook = "running"
  /\ hook' = "done"
  /\ \E err \in {Null, [step |-> "hook"]} : callbacks' = Append(callbacks, [err |-> err])
  /\ UNCHANGED <<pluginVars, options, fsFiles, engine, call, pc, workerOptionsList, workers, failures,
                 promiseAll, serviceWorkerManifest, manifestWrite, outputFiles>>

\* Builds of the after-emit pipeline: manifests given in memory or by path.
ManifestPath == <<"m", ".", "j", "s", "o", "n">>

NPDashVendor == <<"p", "-", "v", "e", "n", "d", "o", "r", ".", "j", "s">>

BuildEntries ==
  {[name |-> n, css |-> RecFoo.css, js |-> RecFoo.js] :
     n \in {FooJs, NPVendor, NPDashVendor, CommonJs}}

BuildManifests ==
  {ManifestOf(<<>>, deps, PPRoot) :
     deps \in {d \in SeqsUpTo(BuildEntries, MaxDeps) :
                 \A i, j \in DOMAIN d : d[i].name = d[j].name => i = j}}

BuildStrategies == {StrVal("single"), StrVal("multiple"), ArrVal(<<GroupApp>>)}

Init ==
  /\ \E m \in BuildManifests, st \in BuildStrategies, h \in BOOLEAN :
       \/ /\ options = PluginOptions([manifest |-> ObjVal(m), strategy |-> st, hash |-> h])
          /\ fsFiles = <<>>
       \/ /\ options = PluginOptions([manifest |-> StrVal(ManifestPath), strategy |-> st,
                                      hash |-> h])
          /\ fsFiles \in {<<>>, PathResolve(baseDir, ManifestPath) :> m}
  /\ engine = NoEngine
  /\ call = NoCall
  /\ IdlePipeline
  /\ IdlePlugin
  /\ webpack = NoWebpack

Next ==
  \/ AfterEmit
  \/ \E w \in DOMAIN workers : GenerateDone(w)
  \/ \E w \in DOMAIN workers : MkdirpDone(w)
  \/ \E w \in DOMAIN workers : WriteFileDone(w)
  \/ ThenAll
  \/ CatchAll
  \/ ManifestMkdirpDone
  \/ ManifestWriteFileDone
  \/ HookDone

Spec == Init /\ [][Next]_vars

-----------------------------------------------------------------------------
(* lib/plugin.js: the after-emit handler without a manifest.               *)

MaxBuilds == 3  \* after-emit runs on one plugin instance

HashTag == <<"[", "h", "a", "s", "h", "]">>
StatsHash == <<"4", "d", "2", "a">>
Main == <<"m", "a", "i", "n">>
MainJs == <<"m", "a", "i", "n", ".", "j", "s">>
Vendor == <<"v", "e", "n", "d", "o", "r">>
SwHashJs == <<"s", "w", ".", "[", "h", "a", "s", "h", "]", ".", "j", "s">>
AppJsMap == <<"a", "p", "p", ".", "j", "s", ".", "m", "a", "p">>
ExtraGlob == <<"/", "s", "r", "v", "/", "*", ".", "p", "n", "g">>

\* A string in a condition: '' is falsy
TruthyString(s) == s # Empty

\* An optional string option in a condition: undefined, null and '' are falsy
TruthyValue(v) == v.t = "string" /\ TruthyString(v.s)

\* obj.key in a condition, for a boolean key the object may not have
TruthyKey(obj, key) == key \in DOMAIN obj /\ obj[key] = TRUE

\* path.join(dir, f) for an absolute dir and an asset name f
PathJoin(dir, f) ==
  Slash \o Join(NormalizeSegments(Split(dir, Slash) \o Split(f, Slash), <<>>), Slash)

\* s.replace(/pat/g, rep) for a literal pattern
RECURSIVE ReplaceAll(_, _, _)
ReplaceAll(s, pat, rep) ==
  LET i == IndexOf(s, pat)
  IN IF i = 0 THEN s
     ELSE SubSeq(s, 1, i - 1) \o rep \o ReplaceAll(SubSeq(s, i + Len(pat), Len(s)), pat, rep)

\* url.resolve(from, to) for a path-only `from` and a `to` without dot
\* segments: an absolute `to` replaces the path, a relative one replaces what
\* follows the last '/' of `from`.
UrlResolve(from, to) ==
  IF StartsWith(to, Slash) \/ ~Includes(from, Slash) THEN to
  ELSE SubSeq(from, 1, LastSlash(from)) \o to

\* const {publicPath = DEFAULT_PUBLIC_PATH} = compiler.options.output
OutputPublicPath(wp) == IF wp.publicPath.t = "undefined" THEN Empty ELSE wp.publicPath.s

\* chunks.find(c => c.names.includes(chunkName)): its index, 0 when there is none
FindChunk(chunks, chunkName) ==
  LET hits == {i \in DOMAIN chunks : \E k \in DOMAIN chunks[i].names :
                                       chunks[i].names[k] = chunkName}
  IN IF hits = {} THEN 0 ELSE CHOOSE i \in hits : \A j \in hits : i <= j

\* chunk.files[chunk.names.indexOf(chunkName)]
ChunkFileName(chunk, chunkName) ==
  chunk.files[CHOOSE k \in DOMAIN chunk.names :
                /\ chunk.names[k] = chunkName
                /\ \A j \in DOMAIN chunk.names : chunk.names[j] = chunkName => k <= j]

\* The reducer of configureImportScripts over the criteria that remain; acc
\* holds the file list, this.warnings and compilation.errors.
RECURSIVE ImportScriptsReduce(_, _, _, _)
ImportScriptsReduce(list, publicPath, wp, acc) ==
  IF list = <<>> THEN acc
  ELSE LET criteria == IF Head(list).t = "string"
                         THEN [filename |-> Head(list).s, chunkName |-> Empty]
                         ELSE Head(list).v
           hasFileName == TruthyString(criteria.filename)
           hasChunkName == TruthyString(criteria.chunkName)
           warned == IF hasFileName /\ hasChunkName
                       THEN Append(acc.warnings, [warning |-> "chunkNameOverridesFilename",
                                                  criteria |-> criteria])
                       ELSE acc.warnings
           chunk == FindChunk(wp.chunks, criteria.chunkName)
           next ==
             IF hasChunkName
               THEN IF chunk = 0
                      THEN [acc EXCEPT !.warnings = warned,
                                       !.errors = Append(acc.errors,
                                                    [error |-> "chunkNameNotFound",
                                                     chunkName |-> criteria.chunkName])]
                      ELSE [acc EXCEPT !.warnings = warned,
                                       !.fileList = Append(acc.fileList,
                                          UrlResolve(publicPath,
                                            ChunkFileName(wp.chunks[chunk], criteria.chunkName)))]
             ELSE IF hasFileName
               THEN [acc EXCEPT !.warnings = warned,
                                !.fileList = Append(acc.fileList,
                                   UrlResolve(publicPath,
                                     ReplaceAll(criteria.filename, HashTag, wp.hash)))]
             ELSE [acc EXCEPT !.warnings = warned]
       IN ImportScriptsReduce(Tail(list), publicPath, wp, next)

\* configureImportScripts on the plugin state p = [options, config, overrides,
\* warnings, errors]
configureImportScripts(p, importScripts, publicPath, wp) ==
  LET r == ImportScriptsReduce(importScripts, publicPath, wp,
             [fileList |-> <<>>, warnings |-> p.warnings, errors |-> p.errors])
  IN [p EXCEPT !.overrides = ("importScripts" :> r.fileList) @@ p.overrides,
               !.warnings = r.warnings,
               !.errors = r.errors]

\* get workerOptions(): {...this.config, ...this.options, ...this.overrides}
workerOptions(p) == p.overrides @@ p.options @@ p.config

\* configure(compiler, compilation) on the plugin state p, reading wp.  The
\* importScripts option of the model is always an array.  A stripPrefixMulti
\* object given by the user is the object that configure writes to.
configure(p, wp) ==
  LET o == p.options
      given == "stripPrefixMulti" \in DOMAIN o
      filepath == IF o.filepath.t = "undefined" THEN PathResolve(outputPath, o.filename)
                  ELSE o.filepath.s
      publicPath == OutputPublicPath(wp)
      assetGlobs == MapSeq(wp.assets, LAMBDA f : PathJoin(outputPath, f))
      staticFileGlobs ==
        SelectSeq(assetGlobs \o (IF "staticFileGlobs" \in DOMAIN o THEN o.staticFileGlobs
                                 ELSE <<>>),
                  LAMBDA text : ~ \E i \in DOMAIN o.staticFileGlobsIgnorePatterns :
                                    RegexTest(o.staticFileGlobsIgnorePatterns[i], text))
      stripPrefixMulti ==
        IF TruthyString(outputPath)
          THEN ((outputPath \o Slash) :> publicPath)
                 @@ (IF given THEN o.stripPrefixMulti ELSE <<>>)
          ELSE IF given THEN o.stripPrefixMulti ELSE <<>>
      aliased == IF given THEN [o EXCEPT !.stripPrefixMulti = stripPrefixMulti] ELSE o
      prefixed == IF TruthyString(o.prefix)
                    THEN [aliased EXCEPT !.cacheId = o.prefix \o Dash \o o.cacheId]
                    ELSE aliased
      generated == [staticFileGlobs |-> staticFileGlobs, stripPrefixMulti |-> stripPrefixMulti]
      q == configureImportScripts(
             [p EXCEPT !.options = prefixed,
                       !.config = generated @@ p.config,
                       !.overrides = ("filepath" :> StrVal(filepath)) @@ p.overrides],
             o.importScripts, publicPath, wp)
  IN IF o.mergeStaticsConfig THEN [q EXCEPT !.overrides = generated @@ q.overrides] ELSE q

\* checkWarnings(compilation)
checkWarnings(p) ==
  LET w1 == IF TruthyValue(p.options.filepath)
              THEN Append(p.warnings, [warning |-> "filepath"]) ELSE p.warnings
      w2 == IF TruthyKey(p.options, "forceDelete")
              THEN Append(w1, [warning |-> "forceDelete"]) ELSE w1
  IN [p EXCEPT !.warnings = w2,
               !.compilationWarnings =
                  IF TruthyKey(workerOptions(p), "debug") THEN p.compilationWarnings \o w2
                  ELSE p.compilationWarnings]

\* compiler.plugin('after-emit', ...) without this.options.manifest: configure,
\* checkWarnings, then createServiceWorkerFile with this.workerOptions.  A
\* later build of the same compiler runs the handler again on the same plugin
\* instance, with a new compilation.
AfterEmitPlain ==
  /\ pc \in {"idle", "emitted"}
  /\ options.manifest.t = "undefined"
  /\ Len(builds) < MaxBuilds
  /\ LET p == checkWarnings(configure(
                [options |-> options, config |-> thisConfig, overrides |-> thisOverrides,
                 warnings |-> thisWarnings, errors |-> <<>>, compilationWarnings |-> <<>>],
                webpack))
     IN /\ options' = p.options
        /\ thisConfig' = p.config
        /\ thisOverrides' = p.overrides
        /\ thisWarnings' = p.warnings
        /\ webpack' = [webpack EXCEPT !.errors = p.errors, !.warnings = p.compilationWarnings]
        /\ workerOptionsList' = <<workerOptions(p)>>
        /\ builds' = Append(builds, workerOptions(p))
  /\ workers' = <<[state |-> "generate", steps |-> <<"generate">>]>>
  /\ failures' = <<>>
  /\ pc' = "plain"
  /\ UNCHANGED <<fsFiles, engine, call, promiseAll, serviceWorkerManifest, manifestWrite,
                 outputFiles, hook, callbacks>>

\* .then(result => { callback(); })
PlainThen ==
  /\ pc = "plain"
  /\ workers[1].state = "resolved"
  /\ callbacks' = Append(callbacks, [err |-> Undefined])
  /\ pc' = "emitted"
  /\ UNCHANGED <<pluginVars, options, fsFiles, engine, call, workerOptionsList, workers,
                 failures, promiseAll, serviceWorkerManifest, manifestWrite, outputFiles, hook>>

\* .catch(err => callback(err))
PlainCatch ==
  /\ pc = "plain"
  /\ workers[1].state = "rejected"
  /\ callbacks' = Append(callbacks, [err |-> workers[1].error])
  /\ pc' = "emitted"
  /\ UNCHANGED <<pluginVars, options, fsFiles, engine, call, workerOptionsList, workers,
                 failures, promiseAll, serviceWorkerManifest, manifestWrite, outputFiles, hook>>

\* Plugin options without a manifest, and what webpack hands to the handler.
ImportScriptLists ==
  {<<>>,
   <<StrVal(SwHashJs)>>,
   <<ObjVal([filename |-> Empty, chunkName |-> Main])>>,
   <<ObjVal([filename |-> AppJs, chunkName |-> Vendor]), StrVal(AppJs)>>}

OptionalOptions ==
  {<<>>,
   [staticFileGlobs |-> <<ExtraGlob>>, debug |-> TRUE],
   [forceDelete |-> TRUE, debug |-> TRUE],
   [stripPrefixMulti |-> (PathDirname(CustomFilepath) \o Slash) :> Slash]}

PlainInputs ==
  {PluginOptions(extra @@ [prefix |-> pre, filepath |-> fp, mergeStaticsConfig |-> m,
                           staticFileGlobsIgnorePatterns |-> ig, importScripts |-> is]) :
     pre \in {Sw, Empty}, fp \in {Undefined, StrVal(CustomFilepath)}, m \in BOOLEAN,
     ig \in IgnoreLists, is \in ImportScriptLists, extra \in OptionalOptions}

WebpackInputs ==
  {[publicPath |-> pp, assets |-> as, hash |-> StatsHash,
    chunks |-> <<[names |-> <<Main>>, files |-> <<MainJs>>]>>,
    errors |-> <<>>, warnings |-> <<>>] :
     pp \in {Undefined, StrVal(PPPublic)}, as \in {<<AppJs>>, <<AppJs, AppJsMap>>}}

InitPlain ==
  /\ options \in PlainInputs
  /\ webpack \in WebpackInputs
  /\ fsFiles = <<>>
  /\ engine = NoEngine
  /\ call = NoCall
  /\ IdlePipeline
  /\ IdlePlugin

NextPlain ==
  \/ AfterEmitPlain
  \/ \E w \in DOMAIN workers : GenerateDone(w)
  \/ \E w \in DOMAIN workers : MkdirpDone(w)
  \/ \E w \in DOMAIN workers : WriteFileDone(w)
  \/ PlainThen
  \/ PlainCatch

SpecPlain == InitPlain /\ [][NextPlain]_vars

-----------------------------------------------------------------------------
(* Properties of the strategy engines (SpecEngine).                        *)

HasPrefix(s, p) == Len(p) <= Len(s) /\ \A i \in 1..Len(p) : s[i] = p[i]

NoRepeat(list) == \A i, j \in DOMAIN list : list[i] = list[j] => i = j

CalledOptions == call.fn = "createServiceWorkerOptions"

\* Names the Multiple strategy must skip: ^(js/chunk|common\.js|vendor\.js)
C1_Skipped(name) == \E p \in {JsChunk, CommonJs, VendorJs} : HasPrefix(name, p)

C1_Filepath(name) ==
  PathResolve(outputPath,
              engine.prefix \o <<"-">> \o [i \in 1..Len(name) |-> IF name[i] = "/" THEN "-" ELSE name[i]])

\* C1: under the Multiple strategy the output holds no worker configuration
\* for a deps key matching ^(js/chunk|common\.js|vendor\.js) and exactly one for
\* every other key, in key order, with
\* filepath = resolve(outputDir, prefix + '-' + key with every '/' replaced by '-').
C1_MultipleOnePerSurvivingKey ==
  (CalledOptions /\ engine.strategy = StrVal("multiple")) =>
    LET deps == engine.manifest.deps
        out == call.result.a
        kept == {i \in DOMAIN deps : ~C1_Skipped(deps[i].name)}
        Rank(i) == Cardinality({j \in kept : j <= i})
    IN /\ call.result.t = "array"
       /\ Len(out) = Cardinality(kept)
       /\ \A i \in kept : out[Rank(i)].filepath = StrVal(C1_Filepath(deps[i].name))
       /\ \A i \in DOMAIN deps \ kept :
            \A k \in DOMAIN out : out[k].filepath # StrVal(C1_Filepath(deps[i].name))

\* A skipped key followed by a key with a '/' that survives: one configuration.
C1_Witness ==
  /\ CalledOptions
  /\ engine.strategy = StrVal("multiple")
  /\ Len(engine.manifest.deps) = 2
  /\ engine.manifest.deps[1].name = NChunk0
  /\ engine.manifest.deps[2].name = NPVendor
  /\ Len(call.result.a) = 1

C2_Remote(url) == \E p \in {Http, Https, SlashSlash} : HasPrefix(url, p)

\* C2: under the Single strategy every top-level entry whose value is a string
\* matching ^(https?:|//) yields a runtimeCaching element whose urlPattern is
\* compiled from that URL, with handler 'fastest', and contributes no path to
\* staticFileGlobs.
C2_SingleRemoteToRuntimeCaching ==
  (CalledOptions /\ engine.strategy = StrVal("single")) =>
    LET top == engine.manifest.entries
        config == call.result.a[1]
        remote == {i \in DOMAIN top : C2_Remote(top[i].value.s)}
    IN /\ Len(call.result.a) = 1
       /\ \A i \in remote :
            /\ \E k \in DOMAIN config.runtimeCaching :
                 config.runtimeCaching[k] =
                   [urlPattern |-> RegExpOf(top[i].value.s), handler |-> "fastest"]
            /\ \A k \in DOMAIN config.staticFileGlobs :
                 config.staticFileGlobs[k]
                   # PathResolve(outputPath, StripPublicPath(engine, top[i].value.s))
       /\ Len(config.staticFileGlobs) <= Cardinality(DOMAIN top \ remote)

\* A protocol-relative URL beside a local one: one pattern, one static path.
C2_Witness ==
  /\ CalledOptions
  /\ engine.strategy = StrVal("single")
  /\ Len(engine.manifest.entries) = 2
  /\ engine.manifest.entries[1].value = StrVal(UrlCdnB)
  /\ engine.manifest.entries[2].value = StrVal(UrlJsA)
  /\ Len(call.result.a[1].runtimeCaching) = 1
  /\ Len(call.result.a[1].staticFileGlobs) = 1

\* C3: for all three strategies, in every produced worker configuration
\* staticFileGlobs holds no two equal paths and runtimeCaching holds no two
\* entries compiled from the same URL.
C3_NoDuplicates ==
  (CalledOptions /\ call.result.t = "array") =>
    \A k \in DOMAIN call.result.a :
      /\ NoRepeat(call.result.a[k].staticFileGlobs)
      /\ NoRepeat(MapSeq(call.result.a[k].runtimeCaching, LAMBDA r : r.urlPattern))

-----------------------------------------------------------------------------
(* Properties of the path normaliser (SpecPath).                           *)

\* The public path removed only as a leading prefix.
C4_StripLeading(file) ==
  IF HasPrefix(file, engine.publicPath)
    THEN SubSeq(file, Len(engine.publicPath) + 1, Len(file))
    ELSE file

\* C4: normalizePath and the static branch of normalizeServiceWorkerFileOption
\* remove the public path from a URL only where it is the URL's leading prefix;
\* a URL that does not start with it is resolved unchanged against the output
\* directory.
C4_PublicPathStrippedOnlyAsPrefix ==
  /\ call.fn = "normalizePath" =>
       LET list == IF call.arg.t = "array" THEN call.arg.a ELSE <<call.arg.s>>
       IN call.result = [i \in DOMAIN list |-> PathResolve(outputPath, C4_StripLeading(list[i]))]
  /\ call.fn = "normalizeServiceWorkerFileOption" =>
       LET urls == call.arg.css \o call.arg.js
           static == SelectSeq(urls, LAMBDA u : ~C2_Remote(u) /\ isCacheStaticFile(engine, u))
       IN call.result.staticFileGlobs =
            [i \in DOMAIN static |-> PathResolve(outputPath, C4_StripLeading(static[i]))]

\* C5: for every manifest public path, path-only or an absolute URL,
\* normalizePath(normalizePublicPath(publicPath) + 'x.js') is the single path
\* resolve(outputDir, 'x.js'), under the output directory.
C5_RoundTrip ==
  call.fn = "roundTrip" =>
    /\ call.result = <<PathResolve(outputPath, XJs)>>
    /\ HasPrefix(call.result[1], outputPath \o <<"/">>)


-----------------------------------------------------------------------------
(* Properties of the after-emit pipeline (Spec).                           *)

SwFooJs == <<"s", "w", "-", "f", "o", "o", ".", "j", "s">>

FooManifest == ManifestOf(<<>>, <<[name |-> FooJs, css |-> <<>>, js |-> <<UrlFoo>>]>>, PPRoot)

\* manifest {info:{publicPath:'/'}, deps:{'foo.js':{css:[],js:['/foo.abc123.js']}}},
\* strategy 'multiple', prefix 'sw', after the workers were written and aggregated
FooScenarioAggregated ==
  /\ pc = "then"
  /\ engine.manifest = FooManifest
  /\ engine.strategy = StrVal("multiple")
  /\ engine.prefix = Sw

Resolved == {w \in DOMAIN workers : workers[w].state = "resolved"}

\* C6 as stated: in the scenario the aggregate manifest holds the key 'foo.js'
\* mapped to publicPath + the written target filename.
C6_KeyIsEntryName ==
  FooScenarioAggregated =>
    /\ FooJs \in DOMAIN serviceWorkerManifest.files
    /\ serviceWorkerManifest.files[FooJs] = <<"/">> \o workers[1].result.target

\* C6, amended: in the scenario the aggregate manifest holds the key
\* 'sw-foo.js', the worker's source filename, and not 'foo.js', mapped to
\* publicPath + the written target filename; in general it holds, besides
\* 'config', one entry per source filename of the written workers, mapped to
\* publicPath + the target filename of the last worker written under that name.
C6_KeyIsSourceFilename ==
  pc = "then" =>
    LET files == serviceWorkerManifest.files
    IN /\ DOMAIN files = {workers[w].result.source : w \in DOMAIN workers}
       /\ \A w \in DOMAIN workers :
            (\A v \in DOMAIN workers : workers[v].result.source = workers[w].result.source
                                         => v <= w)
              => files[workers[w].result.source] = engine.publicPath \o workers[w].result.target
       /\ serviceWorkerManifest.config = [prefix |-> engine.prefix, publicPath |-> engine.publicPath]
       /\ FooScenarioAggregated =>
            /\ DOMAIN files = {SwFooJs}
            /\ files[SwFooJs] = <<"/">> \o workers[1].result.target
            /\ workers[1].result.target # Empty

\* The scenario with a hashed target, the aggregate manifest on disk.
C6_Witness ==
  /\ FooScenarioAggregated
  /\ options.hash
  /\ manifestWrite.state = "written"
  /\ workers[1].result.target # SwFooJs
  /\ serviceWorkerManifest.files[SwFooJs] = <<"/">> \o workers[1].result.target

\* C7: the aggregate manifest write is started only after every per-worker
\* write has completed successfully, at most once per build, and the manifest
\* then holds an entry for every worker.
C7_JoinBeforeAggregation ==
  /\ manifestWrite.calls <= 1
  /\ promiseAll.state = "resolved" => Resolved = DOMAIN workers
  /\ manifestWrite.state # "none" =>
       /\ pc = "then"
       /\ \A w \in DOMAIN workers :
            /\ workers[w].state = "resolved"
            /\ workers[w].steps = <<"generate", "mkdirp", "writeFile">>
            /\ workers[w].result.source \in DOMAIN serviceWorkerManifest.files

\* Two workers written, the manifest write started.
C7_Witness ==
  /\ Len(workers) = 2
  /\ manifestWrite = [calls |-> 1, state |-> "mkdirp"]
  /\ Cardinality(DOMAIN serviceWorkerManifest.files) = 2

\* C8: when generation, mkdirp or writeFile fails for a worker, the after-emit
\* callback is called with the error of the first failure (it has been called
\* with it, once, or the catch reaction holding it is pending), the aggregate
\* manifest is never written, and the failing worker's pipeline stops at the
\* failed step.
C8_PropagateFirstFailure ==
  /\ failures # <<>> =>
       /\ manifestWrite = NoManifestWrite
       /\ hook = "none"
       /\ ManifestFilepath(options) \notin DOMAIN outputFiles
       /\ \/ pc = "caught" /\ callbacks = <<[err |-> failures[1]]>>
          \/ /\ pc = "waiting" /\ callbacks = <<>>
             /\ promiseAll = [state |-> "rejected", reason |-> failures[1]]
  /\ \A w \in DOMAIN workers :
       workers[w].state = "rejected" =>
         /\ workers[w].steps[Len(workers[w].steps)] = workers[w].error.step
         /\ \E i \in DOMAIN failures : failures[i] = workers[w].error
         /\ workers[w].error.step = "generate" => workers[w].steps = <<"generate">>
         /\ workers[w].error.step = "mkdirp" => workers[w].steps = <<"generate", "mkdirp">>

\* The second worker's mkdirp fails first, the first worker's write fails
\* later; the callback got the mkdirp error.
C8_Witness ==
  /\ Len(workers) = 2
  /\ failures = <<ErrorOf("mkdirp", 2), ErrorOf("writeFile", 1)>>
  /\ callbacks = <<[err |-> ErrorOf("mkdirp", 2)]>>

\* C9: when the manifest option is a path whose file does not exist,
\* normalizeManifest returns null and the build runs with manifest mode
\* inactive: no exception leaves the engine's constructor or the handler.
C9_MissingManifestInactive ==
  (options.manifest.t = "string"
     /\ PathResolve(baseDir, options.manifest.s) \notin DOMAIN fsFiles) =>
    /\ normalizeManifest(options.manifest, baseDir) = Null
    /\ pc # "threw"
    /\ engine.t # "TypeError"

\* C10: the build is reported successfully complete only after the aggregate
\* manifest file write has finished successfully; a failed manifest mkdirp or
\* writeFile is never followed by a success completion.
C10_CompletionAfterPersistence ==
  \A i \in DOMAIN callbacks :
    callbacks[i].err = Null => manifestWrite.state = "written"

-----------------------------------------------------------------------------
(* Properties of repeated builds without a manifest (SpecPlain).           *)

\* C11: on one plugin instance, with the same assets and options, every
\* after-emit run without a manifest produces the same worker options; with a
\* prefix set, cacheId is prefix + '-' + the configured cacheId on every
\* build, not only on the first.
C11_SameWorkerOptionsEveryBuild ==
  \A i \in DOMAIN builds :
    /\ builds[i] = builds[1]
    /\ TruthyString(builds[i].prefix) =>
         builds[i].cacheId = builds[i].prefix \o Dash \o DefaultCacheId

====
